---- MODULE Spec2Model ----
(***************************************************************************)
(* Model of the two solvers of the repository:                             *)
(*   day_14/part_2  the rock field: parse, slide_rocks,                    *)
(*                  rotate_2d_vector_clockwise, calculate_load, solve_part *)
(*   day_16/part_1  the beam tracer: Grid, next_steps, get_energized_tiles *)
(* Vectors keep the source's 0-based indices: a Vec of length n is a       *)
(* function with domain 0..n-1.  An Option is the empty set (None) or a    *)
(* singleton (Some).                                                       *)
(***************************************************************************)
EXTENDS Integers, Sequences, FiniteSets, TLC

VARIABLES
    \* day_14 solve_part
    input, cycles, parsed_input, seen, cycle_length, cycle_start, i,
    remaining_cycles, result, performed, forwarded, picture,
    \* day_14 slide_rocks, one scan step at a time
    column, positions, current_position, last_available_space, passes, first_pass,
    \* day_16 get_energized_tiles
    grid, moves, seen_moves, energized_tiles, popped, expanded,
    \* day_16 next_steps called on its own: the arguments and what it returned
    probe, stepped,
    \* day_14 rotate_2d_vector_clockwise called on its own, up to four times
    first_vector, rotate_arg, rotated, turns,
    \* day_16 solve_part: its input, what input.parse::<Grid>() returned, what it returns
    grid_text, parse_result, answer,
    \* day_14 one tilt pass: the field before it, the column tasks of the parallel
    \* map, the order in which they finished, the collected field, the rotated one
    pass_input, tasks, completion, collected, pass_output,
    \* position in the running function
    pc

rockVars == <<input, cycles, parsed_input, seen, cycle_length, cycle_start, i,
              remaining_cycles, result, performed, forwarded, picture>>
slideVars == <<column, positions, current_position, last_available_space, passes, first_pass>>
beamVars == <<grid, moves, seen_moves, energized_tiles, popped, expanded, probe, stepped>>
rotateVars == <<first_vector, rotate_arg, rotated, turns>>
partVars == <<grid_text, parse_result, answer>>
tiltVars == <<pass_input, tasks, completion, collected, pass_output>>
callVars == <<rotateVars, partVars, tiltVars>>
vars == <<rockVars, slideVars, beamVars, callVars, pc>>

(***************************************************************************)
(* Bounds of the model.                                                    *)
(***************************************************************************)
MaxLen == 5         \* longest column given to slide_rocks on its own
MaxRound == 2       \* most round rocks in an input picture
MaxCube == 1        \* most cube rocks in an input picture
MaxCycles == 5      \* largest `cycles` argument of solve_part
PictureShapes == {<<3, 3>>, <<2, 3>>, <<3, 2>>}    \* <<rows, columns>>
MaxOptics == 4      \* most mirrors and splitters in a grid
MaxArea == 6        \* most cells of a field given to rotate_2d_vector_clockwise on its own
MaxParseOptics == 1 \* most mirrors and splitters in a text given to day_16 solve_part
MaxInvalid == 1     \* most characters that are no tile in such a text
MaxProbeOptics == 1 \* most mirrors and splitters in a grid next_steps is called on alone
GridShapes == {<<3, 2>>, <<2, 3>>}                 \* <<columns, rows>>

(***************************************************************************)
(* day_14: PositionState                                                   *)
(***************************************************************************)
RoundRock == "RoundRock"
CubeRock == "CubeRock"
Empty == "Empty"
PositionState == {RoundRock, CubeRock, Empty}

VecLen(v) == Cardinality(DOMAIN v)

\* collect() / vec![]: the vector is built in full, once, before it is read
\* (the comparison makes TLC evaluate every element; the value is v)
Collect(v) == IF v = v THEN v ELSE v

None == {}
Some(x) == {x}
Unwrap(o) == CHOOSE x \in o : TRUE

(***************************************************************************)
(* slide_rocks: the body of the scan loop, one iteration.  st is the       *)
(* function's local state.                                                 *)
(***************************************************************************)
\* slide_rocks with the slot left where it is after a move
SlideStepNoAdvance(st) ==
    LET cur == st.current_position - 1
        position_state == st.positions[cur]
    IN  IF st.last_available_space # None
        THEN LET last_space_index == Unwrap(st.last_available_space)
             IN  CASE position_state = RoundRock ->
                        [positions |-> [[st.positions EXCEPT ![last_space_index] = RoundRock]
                                            EXCEPT ![cur] = Empty],
                         current_position |-> cur,
                         last_available_space |-> Some(last_space_index)]
                   [] position_state = CubeRock ->
                        [st EXCEPT !.current_position = cur, !.last_available_space = None]
                   [] OTHER -> [st EXCEPT !.current_position = cur]
        ELSE IF position_state = Empty
             THEN [st EXCEPT !.current_position = cur, !.last_available_space = Some(cur)]
             ELSE [st EXCEPT !.current_position = cur]

\* slide_rocks in which a cube rock does not close the open slot
SlideStepIgnoreCube(st) ==
    LET cur == st.current_position - 1
        position_state == st.positions[cur]
    IN  IF st.last_available_space # None
        THEN LET last_space_index == Unwrap(st.last_available_space)
             IN  CASE position_state = RoundRock ->
                        [positions |-> [[st.positions EXCEPT ![last_space_index] = RoundRock]
                                            EXCEPT ![cur] = Empty],
                         current_position |-> cur,
                         last_available_space |-> Some(last_space_index - 1)]
                   [] OTHER -> [st EXCEPT !.current_position = cur]
        ELSE IF position_state = Empty
             THEN [st EXCEPT !.current_position = cur, !.last_available_space = Some(cur)]
             ELSE [st EXCEPT !.current_position = cur]

\* slide_rocks in which the cell a rock left becomes the open slot
SlideStepSlotAtVacated(st) ==
    LET cur == st.current_position - 1
        position_state == st.positions[cur]
    IN  IF st.last_available_space # None
        THEN LET last_space_index == Unwrap(st.last_available_space)
             IN  CASE position_state = RoundRock ->
                        [positions |-> [[st.positions EXCEPT ![last_space_index] = RoundRock]
                                            EXCEPT ![cur] = Empty],
                         current_position |-> cur,
                         last_available_space |-> Some(cur)]
                   [] position_state = CubeRock ->
                        [st EXCEPT !.current_position = cur, !.last_available_space = None]
                   [] OTHER -> [st EXCEPT !.current_position = cur]
        ELSE IF position_state = Empty
             THEN [st EXCEPT !.current_position = cur, !.last_available_space = Some(cur)]
             ELSE [st EXCEPT !.current_position = cur]

SlideStep(st) ==
    LET cur == st.current_position - 1
        position_state == st.positions[cur]
    IN  IF st.last_available_space # None
        THEN LET last_space_index == Unwrap(st.last_available_space)
             IN  CASE position_state = RoundRock ->
                        [positions |-> [[st.positions EXCEPT ![last_space_index] = RoundRock]
                                            EXCEPT ![cur] = Empty],
                         current_position |-> cur,
                         last_available_space |-> Some(last_space_index - 1)]
                   [] position_state = CubeRock ->
                        [st EXCEPT !.current_position = cur, !.last_available_space = None]
                   [] OTHER -> [st EXCEPT !.current_position = cur]
        ELSE IF position_state = Empty
             THEN [st EXCEPT !.current_position = cur, !.last_available_space = Some(cur)]
             ELSE [st EXCEPT !.current_position = cur]

SlideStart(col) ==
    [positions |-> col, current_position |-> VecLen(col), last_available_space |-> None]

RECURSIVE SlideScan(_, _)
SlideScan(st, n) == IF n = 0 THEN st ELSE SlideScan(SlideStep(st), n - 1)

\* slide_rocks as a function of the column (the assert makes an empty column a panic)
slide_rocks(col) == SlideScan(SlideStart(col), VecLen(col)).positions

(***************************************************************************)
(* calculate_load                                                          *)
(***************************************************************************)
RECURSIVE LoadFold(_, _)
LoadFold(col, n) ==
    IF n = 0 THEN 0
    ELSE LoadFold(col, n - 1) + (IF col[n - 1] = RoundRock THEN (n - 1) + 1 ELSE 0)

calculate_load(col) == LoadFold(col, VecLen(col))

(***************************************************************************)
(* rotate_2d_vector_clockwise: n columns of length m become m columns of   *)
(* length n; the nested loop writes every cell of the result exactly once. *)
(***************************************************************************)
rotate_2d_vector_counterclockwise(vector) ==
    LET n == VecLen(vector)
        m == VecLen(vector[0])
    IN  [j \in 0..(m - 1) |-> [k \in 0..(n - 1) |-> vector[k][m - 1 - j]]]

rotate_2d_vector_clockwise(vector) ==
    LET n == VecLen(vector)
        m == VecLen(vector[0])
    IN  Collect([j \in 0..(m - 1) |-> [k \in 0..(n - 1) |-> vector[n - 1 - k][j]]])

(***************************************************************************)
(* parse: the text is a sequence of one-character strings.                 *)
(***************************************************************************)
IsWhitespace(c) == c \in {"\n", " ", "\t", "\r"}
IsRockChar(c) == c \in {"O", ".", "#"}

\* input.find(char::is_whitespace): Some(0-based index) or None
FindWhitespace(text) ==
    LET hits == {k \in 1..Len(text) : IsWhitespace(text[k])}
    IN  IF hits = {} THEN None
        ELSE Some((CHOOSE k \in hits : \A h \in hits : k <= h) - 1)

CharState(c) ==
    CASE c = "O" -> RoundRock
      [] c = "." -> Empty
      [] c = "#" -> CubeRock

\* Ok(columns) as Some(columns); the missing line break is the Err
parse(text) ==
    LET found == FindWhitespace(text)
    IN  IF found = None THEN None
        ELSE LET row_len == Unwrap(found)
                 cleaned_input == SelectSeq(text, IsRockChar)
                 total == Len(cleaned_input)
                 \* how many j in 0..total-1 have j % row_len = c
                 Count(c) == IF total > c THEN ((total - 1 - c) \div row_len) + 1 ELSE 0
             IN  Some([c \in 0..(row_len - 1) |->
                        [k \in 0..(Count(c) - 1) |->
                            \* column.reverse(): index k is the entry Count-1-k of the filter
                            CharState(cleaned_input[(c + (Count(c) - 1 - k) * row_len) + 1])]])

(***************************************************************************)
(* The body of solve_part's `for _ in 0..4`: slide every column, rotate.   *)
(***************************************************************************)
TiltAll(field) == Collect([c \in DOMAIN field |-> slide_rocks(field[c])])

TiltRotate(field) == rotate_2d_vector_clockwise(TiltAll(field))

SpinCycleThreePasses(field) == TiltRotate(TiltRotate(TiltRotate(field)))

SpinCycle(field) == TiltRotate(TiltRotate(TiltRotate(TiltRotate(field))))

RECURSIVE LoadSum(_, _)
LoadSum(field, n) ==
    IF n = 0 THEN 0 ELSE LoadSum(field, n - 1) + calculate_load(field[n - 1])

\* parsed_input.into_par_iter().map(|col| calculate_load(&col)).sum()
TotalLoad(field) == LoadSum(field, VecLen(field))

(***************************************************************************)
(* Inputs of solve_part: the text of every picture of one of the shapes    *)
(* with at most MaxRound round rocks and MaxCube cube rocks, each row      *)
(* ended by a line break.                                                  *)
(***************************************************************************)
TextOf(rows, cols, cells) ==
    [k \in 1..(rows * (cols + 1)) |->
        IF k % (cols + 1) = 0 THEN "\n"
        ELSE cells[((k - 1) \div (cols + 1)) * cols + ((k - 1) % (cols + 1)) + 1]]

CountOf(cells, c) == Cardinality({k \in DOMAIN cells : cells[k] = c})

Texts ==
    UNION {{TextOf(sh[1], sh[2], cells) :
                cells \in {f \in [1..(sh[1] * sh[2]) -> {"O", ".", "#"}] :
                              /\ CountOf(f, "O") <= MaxRound
                              /\ CountOf(f, "#") <= MaxCube}} :
           sh \in PictureShapes}

(***************************************************************************)
(* The picture the text shows, and gravity on it, stated without the scan  *)
(* of slide_rocks.  `picture` follows solve_part: it starts as the picture *)
(* of the input and takes one gravity cycle whenever solve_part does a     *)
(* spin cycle.                                                             *)
(***************************************************************************)
Max(S) == CHOOSE x \in S : \A y \in S : y <= x
Min(S) == CHOOSE x \in S : \A y \in S : x <= y

\* A line of cells settled by gravity, stated by counting: a cube stays; a
\* free cell holds a round rock iff it is among the first cells of its
\* cube-free run, seen from the end the rocks fall to, as many as the run
\* has round rocks.
Settle(line, round, cube, empty, towardHigh) ==
    LET n == VecLen(line)
        RunLo(k) == Max({j \in 0..(k - 1) : line[j] = cube} \cup {-1}) + 1
        RunHi(k) == Min({j \in (k + 1)..(n - 1) : line[j] = cube} \cup {n}) - 1
        Rounds(k) == Cardinality({j \in RunLo(k)..RunHi(k) : line[j] = round})
    IN  [k \in 0..(n - 1) |->
            IF line[k] = cube THEN cube
            ELSE IF towardHigh
                 THEN (IF RunHi(k) - k < Rounds(k) THEN round ELSE empty)
                 ELSE (IF k - RunLo(k) < Rounds(k) THEN round ELSE empty)]

\* The picture of a text: pic[r][c], row 0 the top (north) line, column 0
\* the leftmost (west) character.
PicRows(text) == Cardinality({k \in 1..Len(text) : text[k] = "\n"})
PicCols(text) == Unwrap(FindWhitespace(text))
PicOf(text) ==
    [r \in 0..(PicRows(text) - 1) |->
        [c \in 0..(PicCols(text) - 1) |-> text[r * (PicCols(text) + 1) + c + 1]]]

PicText(pic) ==
    LET rows == VecLen(pic)
        cols == VecLen(pic[0])
    IN  TextOf(rows, cols, [k \in 1..(rows * cols) |-> pic[(k - 1) \div cols][(k - 1) % cols]])

PicColumn(pic, c) == [r \in DOMAIN pic |-> pic[r][c]]

SlideNorth(pic) ==
    Collect([r \in DOMAIN pic |-> [c \in DOMAIN pic[r] |->
                Settle(PicColumn(pic, c), "O", "#", ".", FALSE)[r]]])
SlideSouth(pic) ==
    Collect([r \in DOMAIN pic |-> [c \in DOMAIN pic[r] |->
                Settle(PicColumn(pic, c), "O", "#", ".", TRUE)[r]]])
SlideWest(pic) == Collect([r \in DOMAIN pic |-> Settle(pic[r], "O", "#", ".", FALSE)])
SlideEast(pic) == Collect([r \in DOMAIN pic |-> Settle(pic[r], "O", "#", ".", TRUE)])

\* one gravity cycle of the picture: north, then west, then south, then east
PicCycle(pic) == SlideEast(SlideSouth(SlideWest(SlideNorth(pic))))


(***************************************************************************)
(* solve_part.  One action per loop iteration; `performed` and `forwarded` *)
(* count the spin cycles done by the detection loop and by the             *)
(* fast-forward loop.                                                      *)
(***************************************************************************)
LoopContinuesInclusive(idx, n) == idx <= n

\* for i in 0..cycles
LoopContinues(idx, n) == idx < n

CycleLengthPlusOne(idx, prev_i) == idx - prev_i + 1

\* cycle_length = i - cycle_start
CycleLengthOf(idx, prev_i) == idx - prev_i

RemainingFromZero(n, start, length) == n % length

\* remaining_cycles = (cycles - cycle_start) % cycle_length
RemainingCycles(n, start, length) == (n - start) % length

\* seen.insert(parsed_input.clone(), i)
SeenInsert(map, field, idx) ==
    [f \in DOMAIN map \cup {field} |-> IF f = field THEN idx ELSE map[f]]

IdleRotate ==
    /\ first_vector = <<>> /\ rotate_arg = <<>> /\ rotated = <<>> /\ turns = 0

IdlePart ==
    /\ grid_text = <<>> /\ parse_result = <<>> /\ answer = 0

IdleTilt ==
    /\ pass_input = <<>> /\ tasks = <<>> /\ completion = <<>>
    /\ collected = <<>> /\ pass_output = <<>>

IdleCalls == IdleRotate /\ IdlePart /\ IdleTilt

IdleSlide ==
    /\ column = <<>> /\ positions = <<>> /\ current_position = 0
    /\ last_available_space = None /\ passes = 0 /\ first_pass = <<>>

IdleBeam ==
    /\ grid = <<>> /\ moves = <<>> /\ seen_moves = {} /\ energized_tiles = {}
    /\ popped = 0 /\ expanded = {} /\ probe = <<>> /\ stepped = <<>>

IdleRock ==
    /\ input = <<>> /\ cycles = 0 /\ parsed_input = <<>> /\ seen = <<>>
    /\ cycle_length = 0 /\ cycle_start = 0 /\ i = 0 /\ remaining_cycles = 0
    /\ result = 0 /\ performed = 0 /\ forwarded = 0 /\ picture = <<>>

InitRock ==
    /\ input \in Texts
    /\ cycles \in 0..MaxCycles
    /\ parsed_input = Unwrap(parse(input))
    /\ seen = <<>>
    /\ cycle_length = 0
    /\ cycle_start = 0
    /\ i = 0
    /\ remaining_cycles = 0
    /\ result = 0
    /\ performed = 0
    /\ forwarded = 0
    /\ picture = PicOf(input)
    /\ pc = "loop"
    /\ IdleSlide /\ IdleBeam /\ IdleCalls

\* lines 19-23: the field is in `seen`; break
LoopDetect ==
    /\ pc = "loop"
    /\ LoopContinues(i, cycles)
    /\ parsed_input \in DOMAIN seen
    /\ cycle_start' = seen[parsed_input]
    /\ cycle_length' = CycleLengthOf(i, seen[parsed_input])
    /\ pc' = "after_loop"
    /\ UNCHANGED <<input, cycles, parsed_input, seen, i, remaining_cycles, result,
                   performed, forwarded, picture, slideVars, beamVars, callVars>>

\* lines 24-28: record the field, do one spin cycle
LoopCycle ==
    /\ pc = "loop"
    /\ LoopContinues(i, cycles)
    /\ parsed_input \notin DOMAIN seen
    /\ seen' = SeenInsert(seen, parsed_input, i)
    /\ parsed_input' = SpinCycle(parsed_input)
    /\ i' = i + 1
    /\ performed' = performed + 1
    /\ picture' = PicCycle(picture)
    /\ UNCHANGED <<input, cycles, cycle_length, cycle_start, remaining_cycles, result,
                   forwarded, slideVars, beamVars, callVars, pc>>

\* the range 0..cycles is used up
LoopEnd ==
    /\ pc = "loop"
    /\ ~LoopContinues(i, cycles)
    /\ pc' = "after_loop"
    /\ UNCHANGED <<rockVars, slideVars, beamVars, callVars>>

\* lines 31-32
FastForwardStart ==
    /\ pc = "after_loop"
    /\ IF cycle_length > 0
       THEN /\ remaining_cycles' = RemainingCycles(cycles, cycle_start, cycle_length)
            /\ pc' = "fast_forward"
       ELSE /\ remaining_cycles' = 0
            /\ pc' = "load"
    /\ UNCHANGED <<input, cycles, parsed_input, seen, cycle_length, cycle_start, i,
                   result, performed, forwarded, picture, slideVars, beamVars, callVars>>

\* lines 33-38: one iteration of `for _ in 0..remaining_cycles`
FastForwardCycle ==
    /\ pc = "fast_forward"
    /\ forwarded < remaining_cycles
    /\ parsed_input' = SpinCycle(parsed_input)
    /\ forwarded' = forwarded + 1
    /\ picture' = PicCycle(picture)
    /\ UNCHANGED <<input, cycles, seen, cycle_length, cycle_start, i, remaining_cycles,
                   result, performed, slideVars, beamVars, callVars, pc>>

FastForwardEnd ==
    /\ pc = "fast_forward"
    /\ forwarded >= remaining_cycles
    /\ pc' = "load"
    /\ UNCHANGED <<rockVars, slideVars, beamVars, callVars>>

\* lines 41-44
Load ==
    /\ pc = "load"
    /\ result' = TotalLoad(parsed_input)
    /\ pc' = "done"
    /\ UNCHANGED <<input, cycles, parsed_input, seen, cycle_length, cycle_start, i,
                   remaining_cycles, performed, forwarded, picture, slideVars, beamVars, callVars>>

NextRock ==
    \/ LoopDetect
    \/ LoopCycle
    \/ LoopEnd
    \/ FastForwardStart
    \/ FastForwardCycle
    \/ FastForwardEnd
    \/ Load

SpecRock == InitRock /\ [][NextRock]_vars

(***************************************************************************)
(* Reference definitions for the properties of the rock field.             *)
(***************************************************************************)
ParsedInput == Unwrap(parse(input))

\* the fields before cycles 0 .. n-1 are pairwise distinct
\* <<the field before cycle 0, ..., the field before cycle n>> when the spin
\* cycles are done one after another and nothing else is
RECURSIVE FieldsUpTo(_)
FieldsUpTo(n) ==
    IF n = 0 THEN <<ParsedInput>>
    ELSE LET before == FieldsUpTo(n - 1)
         IN  Append(before, SpinCycle(before[n]))

PairwiseDistinct(n) ==
    LET fields == FieldsUpTo(n)
    IN  \A j \in 0..(n - 1) : \A k \in 0..(j - 1) : fields[j + 1] # fields[k + 1]

IsSquare(text) == PicRows(text) = PicCols(text)

\* solve_part left its loop through the break
DetectedExit == pc = "after_loop" /\ i < cycles

(***************************************************************************)
(* C1: the field solve_part computes the load on, after the detection      *)
(* loop and the fast-forward loop, is the field after exactly `cycles`     *)
(* spin cycles done one after another without detection, and the result    *)
(* is the load of that field.                                              *)
(***************************************************************************)
C1_FastForwardEqualsNaive ==
    pc = "done" =>
        LET naive == FieldsUpTo(cycles)[cycles + 1]
        IN  /\ parsed_input = naive
            /\ result = TotalLoad(naive)

C1_Witness ==
    /\ pc = "done"
    /\ cycle_start >= 1
    /\ cycle_length >= 2
    /\ forwarded >= 1
    /\ result > 0

(***************************************************************************)
(* C6: for a square picture, the field after every spin cycle of           *)
(* solve_part is the parse of the picture in which the round rocks slid    *)
(* north, then west, then south, then east, once per cycle done; so the    *)
(* field has the orientation of the parsed picture again.                  *)
(***************************************************************************)
C6_CycleIsNorthWestSouthEast ==
    IsSquare(input) => parsed_input = Unwrap(parse(PicText(picture)))

C6_Witness ==
    /\ pc = "loop"
    /\ IsSquare(input)
    /\ performed = 1
    /\ parsed_input # ParsedInput
    /\ picture = PicCycle(PicOf(input))
    /\ SlideNorth(PicOf(input)) # PicOf(input)
    /\ SlideWest(SlideNorth(PicOf(input))) # SlideNorth(PicOf(input))

(***************************************************************************)
(* C7: when the detection loop is left through the break at index i with   *)
(* stored index prev_i (cycle_start): exactly i cycles were performed (the *)
(* lookup came before cycle i), prev_i < i, cycle_length = i - prev_i >= 1,*)
(* the field equals the field recorded at prev_i, and no smaller index has *)
(* a field equal to the field of an earlier index.                         *)
(***************************************************************************)
C7_DetectionExit ==
    DetectedExit =>
        /\ performed = i
        /\ cycle_start < i
        /\ cycle_length = i - cycle_start
        /\ cycle_length >= 1
        /\ seen[parsed_input] = cycle_start
        /\ parsed_input = FieldsUpTo(i)[cycle_start + 1]
        /\ parsed_input = FieldsUpTo(i)[i + 1]
        /\ PairwiseDistinct(i)

C7_Witness ==
    /\ DetectedExit
    /\ cycle_start >= 1
    /\ cycle_length >= 2

(***************************************************************************)
(* C9: when the fields before cycles 0 .. cycles-1 are pairwise distinct   *)
(* (cycles = 0 included), solve_part performs exactly `cycles` spin cycles,*)
(* cycle_length stays 0 and the fast-forward block performs no cycle.      *)
(***************************************************************************)
C9_NoRepeatRunsAllCycles ==
    (pc = "done" /\ PairwiseDistinct(cycles)) =>
        /\ performed = cycles
        /\ cycle_length = 0
        /\ forwarded = 0
        /\ remaining_cycles = 0

C9_Witness ==
    /\ pc = "done"
    /\ cycles >= 2
    /\ PairwiseDistinct(cycles)
    /\ performed = cycles

(***************************************************************************)
(* slide_rocks on its own, one iteration of its scan per step, applied to  *)
(* every column of length 1 .. MaxLen and then once more to its own        *)
(* result.  `passes` counts the calls that returned; first_pass keeps what *)
(* the first call returned.                                                *)
(***************************************************************************)
Columns == UNION {[0..(n - 1) -> PositionState] : n \in 1..MaxLen}

InitSlide ==
    /\ column \in Columns
    /\ positions = column
    /\ current_position = VecLen(column)
    /\ last_available_space = None
    /\ passes = 0
    /\ first_pass = <<>>
    /\ pc = "scan"
    /\ IdleRock /\ IdleBeam /\ IdleCalls

\* lines 107-128: one iteration of `for _ in 0..positions.len()`
ScanStep ==
    /\ pc = "scan"
    /\ current_position > 0
    /\ LET st == SlideStep([positions |-> positions,
                            current_position |-> current_position,
                            last_available_space |-> last_available_space])
       IN  /\ positions' = st.positions
           /\ current_position' = st.current_position
           /\ last_available_space' = st.last_available_space
    /\ UNCHANGED <<column, passes, first_pass, rockVars, beamVars, callVars, pc>>

\* line 130: the scan is over, the column is returned
SlideReturn ==
    /\ pc = "scan"
    /\ current_position = 0
    /\ passes' = passes + 1
    /\ first_pass' = IF passes = 0 THEN positions ELSE first_pass
    /\ pc' = "returned"
    /\ UNCHANGED <<column, positions, current_position, last_available_space,
                   rockVars, beamVars, callVars>>

\* slide_rocks called on the column the first call returned (lines 100-104)
SlideAgain ==
    /\ pc = "returned"
    /\ passes = 1
    /\ current_position' = VecLen(positions)
    /\ last_available_space' = None
    /\ pc' = "scan"
    /\ UNCHANGED <<column, positions, passes, first_pass, rockVars, beamVars, callVars>>

NextSlide ==
    \/ ScanStep
    \/ SlideReturn
    \/ SlideAgain

SpecSlide == InitSlide /\ [][NextSlide]_vars

\* the first call of slide_rocks has returned
FirstReturned == pc = "returned" /\ passes = 1

NumberOf(col, state) == Cardinality({k \in DOMAIN col : col[k] = state})

(***************************************************************************)
(* C4 as stated: slide_rocks returns the column in which the round rocks   *)
(* of every run of cells between cube rocks occupy the lowest indices of   *)
(* the run (they slid toward index 0).                                     *)
(***************************************************************************)
C4_Original_SlidesTowardIndexZero ==
    FirstReturned => positions = Settle(column, RoundRock, CubeRock, Empty, FALSE)

(***************************************************************************)
(* C4 amended: slide_rocks returns the column in which the round rocks of  *)
(* every run of cells between cube rocks occupy the highest indices of the *)
(* run (they slid toward the last index), cube rocks where they were.      *)
(***************************************************************************)
C4_SlidesTowardLastIndex ==
    FirstReturned => positions = Settle(column, RoundRock, CubeRock, Empty, TRUE)

C4_Witness ==
    /\ FirstReturned
    /\ NumberOf(column, RoundRock) >= 2
    /\ NumberOf(column, CubeRock) >= 1
    /\ column[0] = RoundRock
    /\ positions[0] = Empty
    /\ positions # column

(***************************************************************************)
(* C5: after slide_rocks no round rock has an empty cell directly above it *)
(* (at the next higher index): the round rocks of a run are packed against *)
(* the run's high end.  When the column's only round rock is at index r    *)
(* and only empty cells lie between it and a cube rock at index c > r, the *)
(* rock ends at index c-1 and calculate_load goes from r+1 to c; with only *)
(* empty cells up to the end of the column it ends at the last index.      *)
(***************************************************************************)
C5_PackedAgainstHighEnd ==
    FirstReturned =>
        /\ \A k \in DOMAIN positions :
              (positions[k] = RoundRock /\ (k + 1) \in DOMAIN positions)
                  => positions[k + 1] # Empty
        /\ \A r \in DOMAIN column : \A c \in DOMAIN column :
              ( /\ r < c
                /\ column[r] = RoundRock
                /\ NumberOf(column, RoundRock) = 1
                /\ column[c] = CubeRock
                /\ \A k \in (r + 1)..(c - 1) : column[k] = Empty )
              => /\ positions[c - 1] = RoundRock
                 /\ calculate_load(column) = r + 1
                 /\ calculate_load(positions) = c
        /\ \A r \in DOMAIN column :
              ( /\ column[r] = RoundRock
                /\ NumberOf(column, RoundRock) = 1
                /\ \A k \in (r + 1)..(VecLen(column) - 1) : column[k] = Empty )
              => /\ positions[VecLen(column) - 1] = RoundRock
                 /\ calculate_load(positions) = VecLen(column)

C5_Witness ==
    /\ FirstReturned
    /\ VecLen(column) = 5
    /\ column[0] = RoundRock
    /\ NumberOf(column, RoundRock) = 1
    /\ column[3] = CubeRock
    /\ column[1] = Empty /\ column[2] = Empty
    /\ positions[2] = RoundRock
    /\ calculate_load(column) = 1
    /\ calculate_load(positions) = 3

\* no round rock of the column can slide: none has an empty cell above it
Settled(col) ==
    \A k \in DOMAIN col :
        (col[k] = RoundRock /\ (k + 1) \in DOMAIN col) => col[k + 1] # Empty

(***************************************************************************)
(* C10: slide_rocks applied to the column slide_rocks returned gives that  *)
(* column again, and a column in which no round rock can slide is returned *)
(* unchanged.                                                              *)
(***************************************************************************)
C10_SlideIdempotent ==
    /\ (pc = "returned" /\ passes = 2) => positions = first_pass
    /\ (FirstReturned /\ Settled(column)) => positions = column

C10_Witness ==
    /\ pc = "returned"
    /\ passes = 2
    /\ first_pass # column
    /\ NumberOf(column, RoundRock) >= 2
    /\ NumberOf(column, CubeRock) >= 1

(***************************************************************************)
(* day_16: Tile, Origin, Grid                                              *)
(***************************************************************************)
TileEmpty == "Tile::Empty"
MirrorForward == "MirrorForward"
MirrorBackward == "MirrorBackward"
SplitterHorizontal == "SplitterHorizontal"
SplitterVertical == "SplitterVertical"

North == "North"
East == "East"
South == "South"
West == "West"
Origin == {North, East, South, West}

\* Result: <<"Ok", value>> or <<"Err", error>>; an anyhow error made of a
\* message is that message
Ok(v) == <<"Ok", v>>
Err(e) == <<"Err", e>>
IsOk(r) == r[1] = "Ok"
IsErr(r) == r[1] = "Err"

\* Tile::try_from taking every other character for an empty tile
TileTryFromLenient(value) ==
    CASE value = "/" -> Ok(MirrorForward)
      [] value = "\\" -> Ok(MirrorBackward)
      [] value = "-" -> Ok(SplitterHorizontal)
      [] value = "|" -> Ok(SplitterVertical)
      [] OTHER -> Ok(TileEmpty)

\* Tile::try_from
TileTryFrom(value) ==
    CASE value = "." -> Ok(TileEmpty)
      [] value = "/" -> Ok(MirrorForward)
      [] value = "\\" -> Ok(MirrorBackward)
      [] value = "-" -> Ok(SplitterHorizontal)
      [] value = "|" -> Ok(SplitterVertical)
      [] OTHER -> Err("Failed to parse Tile from char")

MaxOf(a, b) == IF a >= b THEN a ELSE b

\* Grid::from_str, character by character: k is the next character of s, (x, y)
\* its place; acc holds grid, max_x, max_y.  The ? returns the Err of
\* Tile::try_from as it is.
RECURSIVE FromStrScan(_, _, _, _, _)
FromStrScan(s, k, x, y, acc) ==
    IF k > Len(s)
    THEN \* a last line without a line break is a line too
         LET max_y == IF Len(s) > 0 /\ s[Len(s)] # "\n" THEN MaxOf(acc.max_y, y)
                      ELSE acc.max_y
         IN  Ok([grid |-> acc.grid, extents |-> <<acc.max_x, max_y>>])
    ELSE IF s[k] = "\n"
         THEN FromStrScan(s, k + 1, 0, y + 1, [acc EXCEPT !.max_y = MaxOf(acc.max_y, y)])
         ELSE LET tile == TileTryFrom(s[k])
              IN  IF IsErr(tile) THEN tile
                  ELSE FromStrScan(s, k + 1, x + 1, y,
                          [grid |-> [p \in DOMAIN acc.grid \cup {<<x, y>>} |->
                                        IF p = <<x, y>> THEN tile[2] ELSE acc.grid[p]],
                           max_x |-> MaxOf(acc.max_x, x),
                           max_y |-> acc.max_y])

from_str(s) == FromStrScan(s, 1, 0, 0, [grid |-> <<>>, max_x |-> 0, max_y |-> 0])

\* is_in_bounds with the upper bounds taken from the other axis
is_in_bounds_swapped(g, previous, origin) ==
    CASE origin = North ->
            IF previous[2] + 1 <= g.extents[1]
            THEN Some(<<<<previous[1], previous[2] + 1>>, origin>>) ELSE None
      [] origin = West ->
            IF previous[1] + 1 <= g.extents[2]
            THEN Some(<<<<previous[1] + 1, previous[2]>>, origin>>) ELSE None
      [] origin = South ->
            IF previous[2] >= 1
            THEN Some(<<<<previous[1], previous[2] - 1>>, origin>>) ELSE None
      [] origin = East ->
            IF previous[1] >= 1
            THEN Some(<<<<previous[1] - 1, previous[2]>>, origin>>) ELSE None

\* Grid::is_in_bounds: the next position and the origin, or None
is_in_bounds(g, previous, origin) ==
    CASE origin = North ->
            IF previous[2] + 1 <= g.extents[2]
            THEN Some(<<<<previous[1], previous[2] + 1>>, origin>>) ELSE None
      [] origin = West ->
            IF previous[1] + 1 <= g.extents[1]
            THEN Some(<<<<previous[1] + 1, previous[2]>>, origin>>) ELSE None
      [] origin = South ->
            \* previous.1.checked_sub(1)
            IF previous[2] >= 1
            THEN Some(<<<<previous[1], previous[2] - 1>>, origin>>) ELSE None
      [] origin = East ->
            IF previous[1] >= 1
            THEN Some(<<<<previous[1] - 1, previous[2]>>, origin>>) ELSE None

\* Grid::next_steps: <<move_1, move_2>>; the caller sees to the lookup miss
next_steps(g, current, origin) ==
    LET continue_in_direction(direction) == is_in_bounds(g, current, direction)
        tile == g.grid[current]
    IN  CASE tile = TileEmpty -> <<continue_in_direction(origin), None>>
          [] tile = MirrorForward ->
                (CASE origin = North -> <<continue_in_direction(East), None>>
                   [] origin = East -> <<continue_in_direction(North), None>>
                   [] origin = South -> <<continue_in_direction(West), None>>
                   [] origin = West -> <<continue_in_direction(South), None>>)
          [] tile = MirrorBackward ->
                (CASE origin = North -> <<continue_in_direction(West), None>>
                   [] origin = East -> <<continue_in_direction(South), None>>
                   [] origin = South -> <<continue_in_direction(East), None>>
                   [] origin = West -> <<continue_in_direction(North), None>>)
          [] tile = SplitterHorizontal ->
                IF origin \in {North, South}
                THEN <<continue_in_direction(East), continue_in_direction(West)>>
                ELSE <<continue_in_direction(origin), None>>
          [] tile = SplitterVertical ->
                IF origin \in {East, West}
                THEN <<continue_in_direction(North), continue_in_direction(South)>>
                ELSE <<continue_in_direction(origin), None>>

(***************************************************************************)
(* Inputs of the beam tracer: the text of every grid of one of the shapes  *)
(* with at most MaxOptics mirrors and splitters.                           *)
(***************************************************************************)
TileChars == {".", "/", "\\", "-", "|"}

GridTexts ==
    UNION {{TextOf(sh[2], sh[1], cells) :
                cells \in {f \in [1..(sh[1] * sh[2]) -> TileChars] :
                              Cardinality({k \in DOMAIN f : f[k] # "."}) <= MaxOptics}} :
           sh \in GridShapes}

(***************************************************************************)
(* get_energized_tiles.  st holds the stack `moves` and `seen_moves`;      *)
(* one action per iteration of the while loop; `popped` counts them,      *)
(* `expanded` is the set of the moves popped so far.                       *)
(***************************************************************************)
\* the push with the seen test on the position alone
PushIfNewByPosition(st, move) ==
    IF move = None THEN st
    ELSE LET mv == Unwrap(move)
         IN  IF \E sm \in st.seen_moves : sm[1] = mv[1] THEN st
             ELSE [moves |-> Append(st.moves, mv), seen_moves |-> st.seen_moves \cup {mv}]

\* the push that does not record the move as seen
PushWithoutRecord(st, move) ==
    IF move = None THEN st
    ELSE LET mv == Unwrap(move)
         IN  IF mv \in st.seen_moves THEN st
             ELSE [moves |-> Append(st.moves, mv), seen_moves |-> st.seen_moves]

\* lines 57-62 and 63-68: if let Some(..) = move { if !seen { push; insert } }
PushIfNew(st, move) ==
    IF move = None THEN st
    ELSE LET mv == Unwrap(move)
         IN  IF mv \in st.seen_moves THEN st
             ELSE [moves |-> Append(st.moves, mv), seen_moves |-> st.seen_moves \cup {mv}]

RemoveAt(seq, k) == SubSeq(seq, 1, k - 1) \o SubSeq(seq, k + 1, Len(seq))

InitBeam ==
    /\ \E text \in GridTexts : grid = from_str(text)[2]
    /\ moves = << <<(<<0, 0>>), West>> >>
    /\ seen_moves = { <<(<<0, 0>>), West>> }
    /\ energized_tiles = {}
    /\ popped = 0
    /\ expanded = {}
    /\ probe = <<>>
    /\ stepped = <<>>
    /\ pc = "trace"
    /\ IdleRock /\ IdleSlide /\ IdleCalls

\* lines 54-69: one iteration, on the pending move at index k of the stack
Expand(k) ==
    LET current == moves[k][1]
        origin == moves[k][2]
    IN  /\ energized_tiles' = energized_tiles \cup {current}
        /\ popped' = popped + 1
        /\ expanded' = expanded \cup {moves[k]}
        /\ IF current \in DOMAIN grid.grid
           THEN LET steps == next_steps(grid, current, origin)
                    st1 == PushIfNew([moves |-> RemoveAt(moves, k), seen_moves |-> seen_moves],
                                     steps[1])
                    st2 == PushIfNew(st1, steps[2])
                IN  /\ moves' = st2.moves
                    /\ seen_moves' = st2.seen_moves
                    /\ pc' = pc
           ELSE \* unreachable!()
                /\ moves' = RemoveAt(moves, k)
                /\ seen_moves' = seen_moves
                /\ pc' = "panic"
        /\ UNCHANGED <<grid, probe, stepped, rockVars, slideVars, callVars>>

\* while let Some((current, origin)) = moves.pop()
Pop ==
    /\ pc = "trace"
    /\ moves # <<>>
    /\ Expand(Len(moves))

\* the same iteration on any pending move of the worklist
PopAny ==
    /\ pc = "trace"
    /\ moves # <<>>
    /\ \E k \in 1..Len(moves) : Expand(k)

\* line 70: the stack is empty, energized_tiles is returned
Return ==
    /\ pc = "trace"
    /\ moves = <<>>
    /\ pc' = "returned_tiles"
    /\ UNCHANGED <<beamVars, rockVars, slideVars, callVars>>

NextBeam ==
    \/ Pop
    \/ Return

NextBeamAnyOrder ==
    \/ PopAny
    \/ Return

SpecBeam == InitBeam /\ [][NextBeam]_vars

\* the loop runs on until it returns: nothing else is scheduled
SpecBeamFair == InitBeam /\ [][NextBeam]_vars /\ WF_vars(NextBeam)

SpecBeamAnyOrder == InitBeam /\ [][NextBeamAnyOrder]_vars

(***************************************************************************)
(* Reference definitions for the properties of the beam tracer.            *)
(***************************************************************************)
\* the successors of a state under the tiles
Successors(g, state) ==
    LET steps == next_steps(g, state[1], state[2])
    IN  steps[1] \cup steps[2]

RECURSIVE Closure(_, _)
Closure(g, states) ==
    LET more == states \cup UNION {Successors(g, st) : st \in states}
    IN  IF more = states THEN states ELSE Closure(g, more)

InitialMove == <<(<<0, 0>>), West>>

ReachableStates(g) == Closure(g, {InitialMove})

\* some reachable state leads back to itself
HasBeamLoop(g) ==
    \E st \in ReachableStates(g) : st \in Closure(g, Successors(g, st))

NumPositions(g) == Cardinality(DOMAIN g.grid)

(***************************************************************************)
(* C2: the set get_energized_tiles returns is exactly the set of positions *)
(* of the states reachable from ((0,0), West) through the tiles, whichever *)
(* pending move is taken from the worklist at each iteration.              *)
(***************************************************************************)
C2_EnergizedIsReachable ==
    pc = "returned_tiles" =>
        /\ energized_tiles = {st[1] : st \in ReachableStates(grid)}
        /\ seen_moves = ReachableStates(grid)

C2_Witness ==
    /\ pc = "returned_tiles"
    /\ Cardinality(seen_moves) > Cardinality(energized_tiles)
    /\ Cardinality(energized_tiles) >= 4
    /\ Cardinality(energized_tiles) < NumPositions(grid)
    /\ \E p \in DOMAIN grid.grid : grid.grid[p] \in {SplitterHorizontal, SplitterVertical}

(***************************************************************************)
(* C3: the worklist loop empties the stack and returns, also on a grid     *)
(* with a beam loop, and never pops more than 4 * (number of positions)    *)
(* states.                                                                 *)
(***************************************************************************)
C3_SearchTerminates ==
    /\ <>(pc = "returned_tiles")
    /\ [](popped <= 4 * NumPositions(grid))

C3_Witness ==
    /\ pc = "returned_tiles"
    /\ HasBeamLoop(grid)
    /\ popped >= 4

(***************************************************************************)
(* next_steps on its own: called once on every position of a grid with     *)
(* every origin.                                                           *)
(***************************************************************************)
ProbeGridTexts ==
    UNION {{TextOf(sh[2], sh[1], cells) :
                cells \in {f \in [1..(sh[1] * sh[2]) -> TileChars] :
                              Cardinality({k \in DOMAIN f : f[k] # "."}) <= MaxProbeOptics}} :
           sh \in GridShapes}

InitSteps ==
    /\ \E text \in ProbeGridTexts : grid = from_str(text)[2]
    /\ probe \in (DOMAIN grid.grid) \X Origin
    /\ stepped = <<>>
    /\ moves = <<>>
    /\ seen_moves = {}
    /\ energized_tiles = {}
    /\ popped = 0
    /\ expanded = {}
    /\ pc = "call_next_steps"
    /\ IdleRock /\ IdleSlide /\ IdleCalls

\* grid.next_steps(current, origin), lines 115-157
CallNextSteps ==
    /\ pc = "call_next_steps"
    /\ stepped' = next_steps(grid, probe[1], probe[2])
    /\ pc' = "stepped"
    /\ UNCHANGED <<grid, moves, seen_moves, energized_tiles, popped, expanded, probe,
                   rockVars, slideVars, callVars>>

NextProbe == CallNextSteps

SpecSteps == InitSteps /\ [][NextProbe]_vars

\* The redirection table: the origins a beam of the given origin has after the tile.
Redirect(tile, origin) ==
    CASE tile = TileEmpty -> {origin}
      [] tile = MirrorForward ->
            {o \in Origin : {o, origin} \in {{North, East}, {South, West}}}
      [] tile = MirrorBackward ->
            {o \in Origin : {o, origin} \in {{North, West}, {South, East}}}
      [] tile = SplitterHorizontal ->
            IF origin \in {North, South} THEN {East, West} ELSE {origin}
      [] tile = SplitterVertical ->
            IF origin \in {East, West} THEN {North, South} ELSE {origin}

\* one cell away from the side the origin names
MoveAway(pos, origin) ==
    CASE origin = West -> <<pos[1] + 1, pos[2]>>
      [] origin = East -> <<pos[1] - 1, pos[2]>>
      [] origin = North -> <<pos[1], pos[2] + 1>>
      [] origin = South -> <<pos[1], pos[2] - 1>>

InGrid(g, pos) ==
    /\ 0 <= pos[1] /\ pos[1] <= g.extents[1]
    /\ 0 <= pos[2] /\ pos[2] <= g.extents[2]

TableSuccessors(g, pos, origin) ==
    {<<MoveAway(pos, o), o>> : o \in {d \in Redirect(g.grid[pos], origin) :
                                        InGrid(g, MoveAway(pos, d))}}

(***************************************************************************)
(* C11: for every position of the grid and every origin, next_steps        *)
(* returns exactly the successors of the redirection table, each moved one *)
(* cell away from the side its origin names, those outside the grid        *)
(* dropped: 0, 1 or 2 successors, a second one only from a splitter that   *)
(* splits.                                                                 *)
(***************************************************************************)
C11_NextStepsIsTable ==
    pc = "stepped" =>
        /\ stepped[1] \cup stepped[2] = TableSuccessors(grid, probe[1], probe[2])
        /\ Cardinality(stepped[1]) <= 1
        /\ Cardinality(stepped[2]) <= 1
        /\ stepped[1] \cap stepped[2] = {}
        /\ Cardinality(Redirect(grid.grid[probe[1]], probe[2])) = 1 => stepped[2] = None

C11_Witness ==
    /\ pc = "stepped"
    /\ grid.grid[probe[1]] = SplitterVertical
    /\ probe[2] = East
    /\ stepped[1] # None
    /\ stepped[2] = None
    /\ grid.extents = <<2, 1>>
    /\ probe[1] = <<2, 0>>

(***************************************************************************)
(* rotate_2d_vector_clockwise on its own: called four times in a row,      *)
(* first on a rectangular field of at most MaxArea cells, then on what it  *)
(* returned.  rotate_arg is the argument of the last call.                 *)
(***************************************************************************)
RectFields ==
    UNION {[0..(sh[1] - 1) -> [0..(sh[2] - 1) -> PositionState]] :
           sh \in {t \in (1..MaxArea) \X (1..MaxArea) : t[1] * t[2] <= MaxArea}}

InitRotate ==
    /\ first_vector \in RectFields
    /\ rotate_arg = <<>>
    /\ rotated = first_vector
    /\ turns = 0
    /\ pc = "rotate"
    /\ IdleRock /\ IdleSlide /\ IdleBeam /\ IdlePart /\ IdleTilt

\* lines 47-57
RotateOnce ==
    /\ pc = "rotate"
    /\ turns < 4
    /\ rotate_arg' = rotated
    /\ rotated' = rotate_2d_vector_clockwise(rotated)
    /\ turns' = turns + 1
    /\ UNCHANGED <<first_vector, partVars, tiltVars, rockVars, slideVars, beamVars, pc>>

NextRotate == RotateOnce

SpecRotate == InitRotate /\ [][NextRotate]_vars

(***************************************************************************)
(* C12: rotate_2d_vector_clockwise makes of n columns of length m a field  *)
(* of m columns of length n with result[j][n-1-i] = field[i][j] for all    *)
(* i < n, j < m; four calls in a row give the first field back.            *)
(***************************************************************************)
C12_RotateClockwise ==
    /\ turns >= 1 =>
          LET n == VecLen(rotate_arg)
              m == VecLen(rotate_arg[0])
          IN  /\ DOMAIN rotated = 0..(m - 1)
              /\ \A j \in 0..(m - 1) : DOMAIN rotated[j] = 0..(n - 1)
              /\ \A c \in 0..(n - 1) : \A j \in 0..(m - 1) :
                    rotated[j][n - 1 - c] = rotate_arg[c][j]
    /\ turns = 4 => rotated = first_vector

C12_Witness ==
    /\ turns = 4
    /\ rotated = first_vector
    /\ VecLen(first_vector) = 2
    /\ VecLen(first_vector[0]) = 3
    /\ VecLen(rotate_arg) = 3
    /\ first_vector[0][0] = RoundRock
    /\ first_vector[0][2] = CubeRock
    /\ first_vector[1][0] = Empty
    /\ rotate_arg[0][1] = RoundRock

(***************************************************************************)
(* day_16 solve_part on any text: the text of a grid of one of the shapes  *)
(* with at most MaxParseOptics mirrors and splitters and at most           *)
(* MaxInvalid characters that are no tile.                                 *)
(***************************************************************************)
InvalidChars == {"d", "x"}

ParseTexts ==
    UNION {{TextOf(sh[2], sh[1], cells) :
                cells \in {f \in [1..(sh[1] * sh[2]) -> TileChars \cup InvalidChars] :
                              /\ Cardinality({k \in DOMAIN f : f[k] \in TileChars \ {"."}})
                                    <= MaxParseOptics
                              /\ Cardinality({k \in DOMAIN f : f[k] \in InvalidChars})
                                    <= MaxInvalid}} :
           sh \in GridShapes}

InitPart ==
    /\ grid_text \in ParseTexts
    /\ parse_result = <<>>
    /\ answer = 0
    /\ pc = "parse"
    /\ IdleRock /\ IdleSlide /\ IdleBeam /\ IdleRotate /\ IdleTilt

\* line 15: input.parse::<Grid>()
ParseGrid ==
    /\ pc = "parse"
    /\ parse_result' = from_str(grid_text)
    /\ pc' = "parsed"
    /\ UNCHANGED <<grid_text, answer, rotateVars, tiltVars, rockVars, slideVars, beamVars>>

\* line 15: .expect(..) of an Ok, then lines 45-52: get_energized_tiles begins
ExpectOk ==
    /\ pc = "parsed"
    /\ IsOk(parse_result)
    /\ grid' = parse_result[2]
    /\ moves' = << <<(<<0, 0>>), West>> >>
    /\ seen_moves' = { <<(<<0, 0>>), West>> }
    /\ pc' = "trace"
    /\ UNCHANGED <<energized_tiles, popped, expanded, probe, stepped, callVars, rockVars,
                   slideVars>>

\* line 15: .expect(..) of an Err panics
ExpectErr ==
    /\ pc = "parsed"
    /\ IsErr(parse_result)
    /\ pc' = "panic_expect"
    /\ UNCHANGED <<beamVars, callVars, rockVars, slideVars>>

\* line 17: energized_tiles.len()
CountTiles ==
    /\ pc = "returned_tiles"
    /\ grid_text # <<>>
    /\ answer' = Cardinality(energized_tiles)
    /\ pc' = "solved"
    /\ UNCHANGED <<grid_text, parse_result, rotateVars, tiltVars, rockVars, slideVars,
                   beamVars>>

NextPart ==
    \/ ParseGrid
    \/ ExpectOk
    \/ ExpectErr
    \/ Pop
    \/ Return
    \/ CountTiles

SpecPart == InitPart /\ [][NextPart]_vars

\* the place (x, y) of the character at index k of text s: x counts the
\* characters since the last line break, y the line breaks before it
PlaceOf(s, k) ==
    LET breaks == {j \in 1..(k - 1) : s[j] = "\n"}
        last == IF breaks = {} THEN 0 ELSE CHOOSE j \in breaks : \A h \in breaks : h <= j
    IN  <<k - last - 1, Cardinality(breaks)>>

TileTable ==
    [c \in TileChars |->
        CASE c = "." -> TileEmpty
          [] c = "/" -> MirrorForward
          [] c = "\\" -> MirrorBackward
          [] c = "-" -> SplitterHorizontal
          [] c = "|" -> SplitterVertical]

InvalidAt(s) == {k \in DOMAIN s : s[k] \notin TileChars \cup {"\n"}}

ParseDone == pc \notin {"parse"} /\ grid_text # <<>>

(***************************************************************************)
(* C13: Tile parsing maps . / \ - | to Empty, MirrorForward,               *)
(* MirrorBackward, SplitterHorizontal, SplitterVertical and returns an     *)
(* error for every other character.  When a character of the grid text is  *)
(* no tile, Grid parsing returns that error and no Grid, and no beam       *)
(* search is run: no grid is held, nothing is popped or energized.  When   *)
(* every character is a tile the Grid holds the table's tile at the place  *)
(* of each character.                                                      *)
(***************************************************************************)
C13_TileParsing ==
    ParseDone =>
        /\ IsErr(parse_result) <=> InvalidAt(grid_text) # {}
        /\ IsErr(parse_result) =>
              /\ \E k \in InvalidAt(grid_text) : parse_result = TileTryFrom(grid_text[k])
              /\ grid = <<>> /\ moves = <<>> /\ seen_moves = {}
              /\ energized_tiles = {} /\ popped = 0 /\ answer = 0
              /\ pc \in {"parsed", "panic_expect"}
        /\ IsOk(parse_result) =>
              LET tiles == {k \in DOMAIN grid_text : grid_text[k] # "\n"}
              IN  /\ DOMAIN parse_result[2].grid = {PlaceOf(grid_text, k) : k \in tiles}
                  /\ \A k \in tiles :
                        parse_result[2].grid[PlaceOf(grid_text, k)] = TileTable[grid_text[k]]

C13_Witness ==
    /\ pc = "panic_expect"
    /\ IsErr(parse_result)
    /\ Len(grid_text) = 8
    /\ grid_text[1] = "/"
    /\ grid_text[6] = "d"
    /\ grid = <<>>
    /\ popped = 0

\* the text s with another character that is no tile in place of the one at k
OtherInvalid(s, k) == {[s EXCEPT ![k] = c] : c \in InvalidChars \ {s[k]}}

(***************************************************************************)
(* C14: the error returned for a character that is no tile carries that    *)
(* character: a text that differs from the input only in having another    *)
(* character that is no tile at the same place gives a different error.    *)
(***************************************************************************)
C14_ErrorCarriesCharacter ==
    (pc = "panic_expect" /\ IsErr(parse_result)) =>
        \A k \in InvalidAt(grid_text) : \A other \in OtherInvalid(grid_text, k) :
            from_str(other) # parse_result

\* 0 <= x <= extents.0 and 0 <= y <= extents.1
InExtents(g, pos) ==
    /\ 0 <= pos[1] /\ pos[1] <= g.extents[1]
    /\ 0 <= pos[2] /\ pos[2] <= g.extents[2]

SearchPositions ==
    {moves[k][1] : k \in DOMAIN moves} \cup {sm[1] : sm \in seen_moves} \cup energized_tiles

(***************************************************************************)
(* C15: in every state of the search on a rectangular non-empty grid,      *)
(* every position on the stack, in seen_moves and in energized_tiles lies  *)
(* within the extents and has an entry in the grid map, and the tile       *)
(* lookup of next_steps never misses (unreachable!() is not executed).     *)
(***************************************************************************)
C15_PositionsStayInGrid ==
    pc \in {"trace", "returned_tiles", "panic"} =>
        /\ \A pos \in SearchPositions :
              InExtents(grid, pos) /\ pos \in DOMAIN grid.grid
        /\ pc # "panic"

C15_Witness ==
    /\ pc = "returned_tiles"
    /\ grid.extents = <<2, 1>>
    /\ <<2, 0>> \in energized_tiles
    /\ <<2, 1>> \in energized_tiles
    /\ <<0, 1>> \in energized_tiles
    /\ <<(<<2, 0>>), West>> \in seen_moves
    /\ <<(<<0, 1>>), East>> \in seen_moves

StackSet == {moves[k] : k \in DOMAIN moves}

(***************************************************************************)
(* C16: in every state of get_energized_tiles every move on the stack is   *)
(* in seen_moves, the stack holds no move twice, no move on the stack has  *)
(* been popped before (seen_moves is the popped moves and the stack's      *)
(* moves, so a move in seen_moves is never pushed), and no move is popped  *)
(* twice: there are as many iterations as distinct popped moves.           *)
(***************************************************************************)
C16_NoStateExpandedTwice ==
    pc \in {"trace", "returned_tiles"} =>
        /\ StackSet \subseteq seen_moves
        /\ Cardinality(StackSet) = Len(moves)
        /\ StackSet \cap expanded = {}
        /\ seen_moves = expanded \cup StackSet
        /\ popped = Cardinality(expanded)

C16_Witness ==
    /\ pc = "returned_tiles"
    /\ HasBeamLoop(grid)
    /\ popped >= 6
    /\ popped = Cardinality(seen_moves)
    /\ Cardinality(energized_tiles) < popped

(***************************************************************************)
(* One tilt pass of solve_part: the parallel map gives every column to a   *)
(* task of its own; the tasks run slide_rocks one scan step at a time, in  *)
(* any interleaving; collect waits for all of them and puts each result at *)
(* the index of its column; then the field is rotated.                     *)
(***************************************************************************)
\* a collect that puts the results in the order in which the tasks finished
CollectAsCompleted(t, order) == [j \in DOMAIN t |-> t[order[j + 1]].positions]

\* collect() of an indexed parallel iterator
CollectInOrder(t, order) == [k \in DOMAIN t |-> t[k].positions]

InitTilt ==
    /\ \E text \in Texts : pass_input = Unwrap(parse(text))
    /\ tasks = [k \in DOMAIN pass_input |-> SlideStart(pass_input[k])]
    /\ completion = <<>>
    /\ collected = <<>>
    /\ pass_output = <<>>
    /\ pc = "tilt"
    /\ IdleRock /\ IdleSlide /\ IdleBeam /\ IdleRotate /\ IdlePart

\* one iteration of the scan loop of the task of column k; after the last one
\* the task returns its column
TaskStep(k) ==
    /\ pc = "tilt"
    /\ tasks[k].current_position > 0
    /\ tasks' = [tasks EXCEPT ![k] = SlideStep(tasks[k])]
    /\ completion' = IF tasks'[k].current_position = 0 THEN Append(completion, k)
                     ELSE completion
    /\ UNCHANGED <<pass_input, collected, pass_output, rotateVars, partVars,
                   rockVars, slideVars, beamVars, pc>>

\* line 26: collect() returns when every task has returned
CollectPass ==
    /\ pc = "tilt"
    /\ Len(completion) = VecLen(pass_input)
    /\ collected' = CollectInOrder(tasks, completion)
    /\ pc' = "collected"
    /\ UNCHANGED <<pass_input, tasks, completion, pass_output, rotateVars, partVars,
                   rockVars, slideVars, beamVars>>

\* line 27
RotatePass ==
    /\ pc = "collected"
    /\ pass_output' = rotate_2d_vector_clockwise(collected)
    /\ pc' = "pass_done"
    /\ UNCHANGED <<pass_input, tasks, completion, collected, rotateVars, partVars,
                   rockVars, slideVars, beamVars>>

NextTilt ==
    \/ \E k \in DOMAIN tasks : TaskStep(k)
    \/ CollectPass
    \/ RotatePass

SpecTilt == InitTilt /\ [][NextTilt]_vars

(***************************************************************************)
(* C17: in one tilt pass, whatever the interleaving of the column tasks    *)
(* and the order in which they finish, the collected field has at every    *)
(* index k slide_rocks of column k of the field before the pass; the field *)
(* is collected and rotated only when every task has finished, and the     *)
(* rotated field is the rotation of all the slid columns.                  *)
(***************************************************************************)
C17_TiltPassOrderIndependent ==
    /\ pc \in {"collected", "pass_done"} =>
          /\ \A k \in DOMAIN tasks : tasks[k].current_position = 0
          /\ DOMAIN collected = DOMAIN pass_input
          /\ \A k \in DOMAIN pass_input : collected[k] = slide_rocks(pass_input[k])
    /\ pc = "pass_done" => pass_output = TiltRotate(pass_input)

C17_Witness ==
    /\ pc = "pass_done"
    /\ completion = <<2, 0, 1>>
    /\ collected[0] # collected[2]
    /\ collected[0] # collected[1]
    /\ collected[0] # pass_input[0]
    /\ collected[2] # pass_input[2]

(***************************************************************************)
(* slide_rocks on any column, and solve_part on any picture: the two side  *)
(* by side, for what holds of a slide and so of the whole field.           *)
(***************************************************************************)
InitSlideOrRock == InitSlide \/ InitRock

NextSlideOrRock ==
    \/ NextSlide
    \/ NextRock

SpecSlideOrRock == InitSlideOrRock /\ [][NextSlideOrRock]_vars

CubeIndices(col) == {k \in DOMAIN col : col[k] = CubeRock}

\* a..b is a maximal run of cells of col without a cube rock
IsRun(col, a, b) ==
    /\ a <= b
    /\ \A k \in a..b : col[k] # CubeRock
    /\ (a - 1) \in DOMAIN col => col[a - 1] = CubeRock
    /\ (b + 1) \in DOMAIN col => col[b + 1] = CubeRock

RoundIn(col, a, b) == Cardinality({k \in a..b : col[k] = RoundRock})

RoundsOfField(field) ==
    Cardinality({cell \in UNION {{<<c, k>> : k \in DOMAIN field[c]} : c \in DOMAIN field} :
                    field[cell[1]][cell[2]] = RoundRock})

CubesOfField(field) ==
    {cell \in UNION {{<<c, k>> : k \in DOMAIN field[c]} : c \in DOMAIN field} :
        field[cell[1]][cell[2]] = CubeRock}

(***************************************************************************)
(* C18: slide_rocks returns a column of the same length with the cube      *)
(* rocks at the same indices and, in every maximal run of cells between    *)
(* cube rocks, as many round rocks as before; and after every complete     *)
(* spin cycle of solve_part the field has as many round rocks as the       *)
(* parsed field and its cube rocks in the same cells.                      *)
(***************************************************************************)
C18_OnlyRoundRocksMove ==
    /\ pc = "returned" =>
          /\ DOMAIN positions = DOMAIN column
          /\ CubeIndices(positions) = CubeIndices(column)
          /\ \A a \in DOMAIN column : \A b \in DOMAIN column :
                IsRun(column, a, b) => RoundIn(positions, a, b) = RoundIn(column, a, b)
    /\ pc \in {"loop", "after_loop", "fast_forward", "load", "done"} =>
          /\ DOMAIN parsed_input = DOMAIN ParsedInput
          /\ \A c \in DOMAIN parsed_input : DOMAIN parsed_input[c] = DOMAIN ParsedInput[c]
          /\ RoundsOfField(parsed_input) = RoundsOfField(ParsedInput)
          /\ CubesOfField(parsed_input) = CubesOfField(ParsedInput)

C18_Witness ==
    /\ pc = "done"
    /\ performed + forwarded >= 2
    /\ parsed_input # ParsedInput
    /\ RoundsOfField(parsed_input) = 2
    /\ CubesOfField(parsed_input) # {}
    /\ VecLen(parsed_input) # VecLen(parsed_input[0])

(***************************************************************************)
(* C19: between the iterations of slide_rocks' scan, with the next         *)
(* iteration looking at index current_position - 1: when                   *)
(* last_available_space is Some(s), s is an index of the column above the  *)
(* cell looked at next (s >= current_position), every cell at indices      *)
(* current_position .. s is Empty, so a round rock moved by the next       *)
(* iteration lands on an Empty cell and s - 1 is not below 0.              *)
(***************************************************************************)
C19_SlotAboveScanIsEmpty ==
    (pc = "scan" /\ last_available_space # None) =>
        LET last_space_index == Unwrap(last_available_space)
        IN  /\ last_space_index \in DOMAIN positions
            /\ last_space_index >= current_position
            /\ \A k \in current_position..last_space_index : positions[k] = Empty
            /\ (current_position > 0 /\ positions[current_position - 1] = RoundRock) =>
                  /\ positions[last_space_index] = Empty
                  /\ last_space_index - 1 >= 0

C19_Witness ==
    /\ pc = "scan"
    /\ passes = 0
    /\ VecLen(column) = 5
    /\ positions # column
    /\ last_available_space = Some(2)
    /\ current_position = 1
    /\ positions[0] = RoundRock
    /\ positions[3] = RoundRock
    /\ positions[4] = CubeRock

====
